---- MODULE Spec2Model ----
(***************************************************************************)
(* Model of the Anthropic plugin for Genkit (plugins/anthropic/claude.go): *)
(* the process-wide plugin state (lock, initialized flag, client), the     *)
(* model registry it fills, one model invocation (generate), and the pure  *)
(* translation functions between the agnostic and the provider schema.     *)
(*                                                                         *)
(* Strings whose characters matter (data URLs, JSON text) are sequences of *)
(* one-character strings; a literal of a format string is kept as a single *)
(* chunk.  A Go slice is a record [nil, elems]; a param.Field is a record  *)
(* [present, value]; an error is a record [kind, arg], NoErr being nil.    *)
(***************************************************************************)
EXTENDS Integers, Sequences, FiniteSets, TLC

VARIABLES
    initted,    \* state.initted
    client,     \* state.client (NoClient is the nil pointer)
    mu,         \* state.mu: "free" or the process holding it
    registry,   \* the model registry of provider "anthropic": name -> metadata
    pc,         \* position of each process in the call it is making
    call,       \* arguments and locals of the call each process is making
    ret,        \* what the last finished call of each process returned
    ncalls,     \* number of calls started so far
    made,       \* number of clients constructed so far (anthropic.NewClient)
    input,      \* argument handed to a translation function
    output,     \* what the translation function returned
    phase       \* "ready" before the function is applied, "done" after

vars == <<initted, client, mu, registry, pc, call, ret, ncalls, made,
          input, output, phase>>

pluginVars == <<initted, client, mu, registry, pc, call, ret, ncalls, made>>
funcVars == <<input, output, phase>>

----------------------------------------------------------------------------
(* Constants of the source *)

provider == "anthropic"
labelPrefix == "Anthropic"

Multimodal == [Multiturn |-> TRUE, Tools |-> TRUE, SystemRole |-> TRUE, Media |-> TRUE]

KnownModels ==
    { "claude-3-5-haiku-20241022", "claude-3-5-sonnet-20241022",
      "claude-3-haiku-20240307", "claude-3-sonnet-20240229",
      "claude-3-opus-20240229" }

knownCaps == [m \in KnownModels |-> Multimodal]

OutputFormatText == "text"

----------------------------------------------------------------------------
(* Go values *)

NoErr == [kind |-> "nil", arg |-> ""]
Errorf(kind, arg) == [kind |-> kind, arg |-> arg]

NilSlice == [nil |-> TRUE, elems |-> <<>>]
Slice(s) == [nil |-> FALSE, elems |-> s]

Unset == [present |-> FALSE, value |-> "unset"]
F(v) == [present |-> TRUE, value |-> v]

\* int64(c.MaxOutputTokens), int64(c.TopK): widening an int keeps its value
Int64(n) == n

\* int(x) of an int64 counter, on the 64-bit builds where int is 64 bits wide
IntOf(n) == n

----------------------------------------------------------------------------
(* Strings as character sequences *)

RECURSIVE Concat(_)
Concat(ss) == IF ss = <<>> THEN <<>> ELSE Head(ss) \o Concat(Tail(ss))

HasAt(s, i, lit) ==
    /\ i >= 1
    /\ i + Len(lit) - 1 <= Len(s)
    /\ SubSeq(s, i, i + Len(lit) - 1) = lit

\* index of the first c in s at or after position from; 0 when there is none
IndexFrom(s, c, from) ==
    LET hits == {i \in from..Len(s) : s[i] = c}
    IN IF hits = {} THEN 0 ELSE CHOOSE i \in hits : \A j \in hits : i <= j

DataPrefix == <<"d", "a", "t", "a", ":">>
Base64Marker == <<";", "b", "a", "s", "e", "6", "4", ",">>

----------------------------------------------------------------------------
(* extractDataFromBase64URL: ^data:([^;]+);base64,(.+)$                    *)
(* [^;]+ stops at the first ';' after "data:", so the match is decided by  *)
(* one left-to-right scan; '.' does not match a newline and '$' is the end *)
(* of the text.  Returns (matches[2], matches[1], nil) or an error.        *)

\* extractDataFromBase64URL returning the two groups in the other order
ExtractSwapped(url) ==
    LET n    == Len(DataPrefix)
        semi == IF HasAt(url, 1, DataPrefix) THEN IndexFrom(url, ";", n + 1) ELSE 0
        from == semi + Len(Base64Marker)
        ok   == /\ semi > n + 1
                /\ HasAt(url, semi, Base64Marker)
                /\ from <= Len(url)
                /\ \A i \in from..Len(url) : url[i] # "\n"
    IN IF ok
       THEN [data |-> SubSeq(url, n + 1, semi - 1),
             contentType |-> SubSeq(url, from, Len(url)),
             err |-> NoErr]
       ELSE [data |-> <<>>, contentType |-> <<>>,
             err |-> Errorf("MalformedDataURL", "invalid base64 data URL format")]

extractDataFromBase64URL(url) ==
    LET n    == Len(DataPrefix)
        semi == IF HasAt(url, 1, DataPrefix) THEN IndexFrom(url, ";", n + 1) ELSE 0
        from == semi + Len(Base64Marker)
        ok   == /\ semi > n + 1
                /\ HasAt(url, semi, Base64Marker)
                /\ from <= Len(url)
                /\ \A i \in from..Len(url) : url[i] # "\n"
    IN IF ok
       THEN [data |-> SubSeq(url, from, Len(url)),
             contentType |-> SubSeq(url, n + 1, semi - 1),
             err |-> NoErr]
       ELSE [data |-> <<>>, contentType |-> <<>>,
             err |-> Errorf("MalformedDataURL", "invalid base64 data URL format")]

----------------------------------------------------------------------------
(* map[string]any and json.Marshal                                         *)
(* A map is a function from its keys to tagged values [t, v]: t is         *)
(* "string" (v its characters), "number" (v its digits) or "chan" (a value *)
(* encoding/json cannot encode).                                           *)

StringVal(s) == [t |-> "string", v |-> s]
NumberVal(d) == [t |-> "number", v |-> d]
ChanVal == [t |-> "chan", v |-> <<>>]
Absent == [t |-> "absent", v |-> <<>>]

\* m[k].(string): the value and whether the key holds a string
IsString(m, k) == k \in DOMAIN m /\ m[k].t = "string"

\* encoding/json sorts the keys of a map
SortedKeys == <<"contentType", "result", "url">>

JSONEscape(c) ==
    CASE c = "\n" -> <<"\\", "n">>
      [] c = "\"" -> <<"\\", "\"">>
      [] c = "\\" -> <<"\\", "\\">>
      [] OTHER    -> <<c>>

JSONValue(val) ==
    IF val.t = "string"
    THEN <<"\"">> \o Concat([i \in 1..Len(val.v) |-> JSONEscape(val.v[i])]) \o <<"\"">>
    ELSE val.v

JSONMember(m, k) == <<"\"", k, "\"", ":">> \o JSONValue(m[k])

RECURSIVE JSONMembers(_, _, _)
JSONMembers(m, i, first) ==
    IF i > Len(SortedKeys) THEN <<>>
    ELSE LET k == SortedKeys[i]
         IN IF k \in DOMAIN m
            THEN (IF first THEN <<>> ELSE <<",">>) \o JSONMember(m, k)
                     \o JSONMembers(m, i + 1, FALSE)
            ELSE JSONMembers(m, i + 1, first)

jsonMarshal(m) ==
    IF \E k \in DOMAIN m : m[k].t = "chan"
    THEN [bytes |-> <<>>, err |-> Errorf("UnsupportedTypeError", "chan")]
    ELSE [bytes |-> <<"{">> \o JSONMembers(m, 1, TRUE) \o <<"}">>, err |-> NoErr]

----------------------------------------------------------------------------
(* convertToolResponse *)

ImageOpen == "{\"type\":\"image\",\"source\":{\"type\":\"base64\",\"data\":\""
ImageMid == "\",\"media_type\":\""
ImageClose == "\"}}"
TextOpen == "{\"type\":\"text\",\"text\":"
TextClose == "}"

ImageBlockJSON(data, contentType) ==
    <<ImageOpen>> \o data \o <<ImageMid>> \o contentType \o <<ImageClose>>

TextBlockJSON(bytes) == <<TextOpen>> \o bytes \o <<TextClose>>

convertToolResponse(response) ==
    LET out == response.Output
        ex  == IF IsString(out, "url")
               THEN extractDataFromBase64URL(out["url"].v)
               ELSE [data |-> <<>>, contentType |-> <<>>, err |-> NoErr]
        js  == jsonMarshal(out)
    IN IF IsString(out, "url") /\ ex.err = NoErr
       THEN ImageBlockJSON(ex.data,
                IF IsString(out, "contentType") THEN out["contentType"].v
                ELSE ex.contentType)
       ELSE IF js.err = NoErr THEN TextBlockJSON(js.bytes)
       ELSE <<>>

----------------------------------------------------------------------------
(* Content blocks of the provider SDK, as the records its constructors build *)

NewTextBlock(text) == [Type |-> "text", Text |-> text]

NewImageBlockBase64(mediaType, encodedData) ==
    [Type |-> "image",
     Source |-> [Type |-> "base64", MediaType |-> mediaType, Data |-> encodedData]]

NewToolUseBlockParam(id, name, toolInput) ==
    [Type |-> "tool_use", ID |-> id, Name |-> name, Input |-> toolInput]

NewToolResultBlock(toolUseID, content, isError) ==
    [Type |-> "tool_result", ToolUseID |-> toolUseID,
     Content |-> <<NewTextBlock(content)>>, IsError |-> isError]

----------------------------------------------------------------------------
(* convertRole (no function of the file calls it) *)

convertRole(role) ==
    CASE role = "user"   -> [role |-> "user", err |-> NoErr]
      [] role = "system" -> [role |-> "assistant", err |-> NoErr]
      [] role = "model"  -> [role |-> "assistant", err |-> NoErr]
      [] OTHER           -> [role |-> "", err |-> Errorf("UnsupportedRole", role)]

----------------------------------------------------------------------------
(* convertMessages *)

SupportedKinds == {"text", "media", "toolRequest", "toolResponse"}

\* one case of the switch on part.Kind
ConvertPart(part) ==
    CASE part.Kind = "text" -> NewTextBlock(part.Text)
      [] part.Kind = "media" -> NewImageBlockBase64(part.ContentType, part.Text)
      [] part.Kind = "toolRequest" ->
            NewToolUseBlockParam(part.ToolRequest.Name, part.ToolRequest.Name,
                                 part.ToolRequest.Input)
      [] part.Kind = "toolResponse" ->
            NewToolResultBlock(part.ToolResponse.Name,
                               convertToolResponse(part.ToolResponse), FALSE)

\* ConvertParts skipping a part of an unsupported kind instead of failing
RECURSIVE ConvertPartsSkipping(_, _)
ConvertPartsSkipping(parts, content) ==
    IF parts = <<>> THEN [content |-> content, err |-> NoErr]
    ELSE IF Head(parts).Kind \in SupportedKinds
         THEN ConvertPartsSkipping(Tail(parts), Append(content, ConvertPart(Head(parts))))
         ELSE ConvertPartsSkipping(Tail(parts), content)

\* the inner loop over msg.Content: the content built so far, and the error
\* of the default case, which returns from convertMessages at once
RECURSIVE ConvertParts(_, _)
ConvertParts(parts, content) ==
    IF parts = <<>> THEN [content |-> content, err |-> NoErr]
    ELSE IF Head(parts).Kind \in SupportedKinds
         THEN ConvertParts(Tail(parts), Append(content, ConvertPart(Head(parts))))
         ELSE [content |-> content,
               err |-> Errorf("UnsupportedPartKind", Head(parts).Kind)]

\* the outer loop: system and user are the two result slices, built is the
\* blocks appended to the per-message content slices so far.  The loop body
\* ends after the inner loop: content is appended to neither slice.
RECURSIVE MessagesLoop(_, _, _, _)
MessagesLoop(messages, system, user, built) ==
    IF messages = <<>>
    THEN [system |-> Slice(system), user |-> Slice(user), err |-> NoErr,
          built |-> built]
    ELSE LET c == ConvertParts(Head(messages).Content, <<>>)
         IN IF c.err # NoErr
            THEN [system |-> NilSlice, user |-> NilSlice, err |-> c.err,
                  built |-> built \o c.content]
            ELSE MessagesLoop(Tail(messages), system, user, built \o c.content)

convertMessages(messages) == MessagesLoop(messages, <<>>, <<>>, <<>>)

----------------------------------------------------------------------------
(* convertTools *)

ToolParam(t) ==
    [Name |-> F(t.Name), InputSchema |-> t.InputSchema, Description |-> F(t.Description)]

convertTools(tools) ==
    [res |-> Slice([i \in 1..Len(tools) |-> ToolParam(tools[i])]), err |-> NoErr]

----------------------------------------------------------------------------
(* convertRequest *)

\* anthropic.MessageNewParams{}
ZeroParams ==
    [System |-> Unset, Model |-> Unset, Messages |-> Unset, Tools |-> Unset,
     MaxTokens |-> Unset, TopK |-> Unset, TopP |-> Unset, Temperature |-> Unset,
     StopSequences |-> Unset, ToolChoice |-> Unset, Metadata |-> Unset]

\* UnsupportedOutput rejecting the JSON format only
UnsupportedOutputJSONOnly(req) ==
    ~req.Output.nil /\ req.Output.Format = "json"

\* input.Output != nil && input.Output.Format != ai.OutputFormatText
UnsupportedOutput(req) ==
    ~req.Output.nil /\ req.Output.Format # OutputFormatText

\* c, ok := input.Config.(*ai.GenerationCommonConfig); ok && c != nil
IsCommonConfig(cfg) == cfg.dyn = "common" /\ ~cfg.isNil

\* c, ok := input.Config.(*GenerationAnthropicConfig); ok && c != nil
IsAnthropicConfig(cfg) == cfg.dyn = "anthropic" /\ ~cfg.isNil

SetGenerationFields(params, c) ==
    [params EXCEPT !.MaxTokens = F(Int64(c.MaxOutputTokens)),
                   !.TopK = F(Int64(c.TopK)),
                   !.TopP = F(c.TopP),
                   !.Temperature = F(c.Temperature),
                   !.StopSequences = F(c.StopSequences)]

ApplyCommonConfig(params, cfg) ==
    IF IsCommonConfig(cfg) THEN SetGenerationFields(params, cfg.common) ELSE params

\* ApplyAnthropicConfig without the line that sets the tool choice
ApplyAnthropicConfigNoToolChoice(params, cfg) ==
    IF IsAnthropicConfig(cfg)
    THEN [SetGenerationFields(params, cfg.common) EXCEPT !.Metadata = F(cfg.Metadata)]
    ELSE params

\* GenerationAnthropicConfig embeds ai.GenerationCommonConfig: c.Temperature
\* and the other shared fields are the fields of the embedded common config
ApplyAnthropicConfig(params, cfg) ==
    IF IsAnthropicConfig(cfg)
    THEN [SetGenerationFields(params, cfg.common) EXCEPT
              !.ToolChoice = F(cfg.ToolChoiceParam),
              !.Metadata = F(cfg.Metadata)]
    ELSE params

\* calls lists the converters convertRequest has called when it returns
convertRequest(model, req) ==
    IF UnsupportedOutput(req)
    THEN [params |-> ZeroParams,
          err |-> Errorf("UnsupportedOutputFormat", req.Output.Format),
          calls |-> <<>>]
    ELSE LET cm == convertMessages(req.Messages)
         IN IF cm.err # NoErr
            THEN [params |-> ZeroParams, err |-> cm.err,
                  calls |-> <<"convertMessages">>]
            ELSE LET ct == convertTools(req.Tools)
                     base == [ZeroParams EXCEPT !.System = F(cm.system),
                                                !.Model = F(model),
                                                !.Messages = F(cm.user),
                                                !.Tools = F(ct.res)]
                 IN IF ct.err # NoErr
                    THEN [params |-> ZeroParams, err |-> ct.err,
                          calls |-> <<"convertMessages", "convertTools">>]
                    ELSE [params |-> ApplyAnthropicConfig(
                                         ApplyCommonConfig(base, req.Config), req.Config),
                          err |-> NoErr,
                          calls |-> <<"convertMessages", "convertTools">>]

----------------------------------------------------------------------------
(* translateCandidate, translateResponse *)

NewTextPart(text) == [Kind |-> "text", Text |-> text]

\* FinishReason with a stop sequence taken for a normal stop
FinishReasonStopSequenceAsStop(stopReason) ==
    CASE stopReason = "end_turn"      -> "stop"
      [] stopReason = "max_tokens"    -> "length"
      [] stopReason = "stop_sequence" -> "stop"
      [] stopReason = "tool_use"      -> "other"
      [] OTHER                        -> "unknown"

\* the switch on stopReason
FinishReason(stopReason) ==
    CASE stopReason = "end_turn"      -> "stop"
      [] stopReason = "max_tokens"    -> "length"
      [] stopReason = "stop_sequence" -> "other"
      [] stopReason = "tool_use"      -> "other"
      [] OTHER                        -> "unknown"

translateCandidate(c, stopReason) ==
    [FinishReason |-> FinishReason(stopReason),
     Message |-> [Role |-> "model", Content |-> <<NewTextPart(c.Text)>>]]

\* GenerationUsage with the output tokens left out of the total
UsageInputOnly(usage) ==
    [InputTokens  |-> IntOf(usage.InputTokens),
     OutputTokens |-> IntOf(usage.OutputTokens),
     TotalTokens  |-> IntOf(usage.InputTokens)]

\* the sum is taken in int64 and then converted
GenerationUsage(usage) ==
    [InputTokens  |-> IntOf(usage.InputTokens),
     OutputTokens |-> IntOf(usage.OutputTokens),
     TotalTokens  |-> IntOf(usage.InputTokens + usage.OutputTokens)]

NoRequest == [nil |-> TRUE, to |-> <<>>]

translateResponse(res) ==
    [Candidates |-> [i \in 1..Len(res.Content) |->
                        translateCandidate(res.Content[i], res.StopReason)],
     Usage |-> GenerationUsage(res.Usage),
     Request |-> NoRequest]

----------------------------------------------------------------------------
(* Bounds of the inputs *)

MaxSegs == 4      \* segments a generated URL is made of
MaxBlocks == 2    \* content blocks of a provider response
MaxTokens == 3    \* value of a usage counter
MaxMsgs == 2      \* messages of a request
MaxCalls == 3     \* calls to the plugin in one run

----------------------------------------------------------------------------
(* The plugin state before Init; the processes calling the plugin *)

Procs == {"p1", "p2"}

NoClient == [nil |-> TRUE, id |-> 0, apiKey |-> ""]
NoCall == [op |-> "none"]
NoRet == [op |-> "none"]

PluginInit ==
    /\ initted = FALSE
    /\ client = NoClient
    /\ mu = "free"
    /\ registry = <<>>
    /\ pc = [p \in Procs |-> "idle"]
    /\ call = [p \in Procs |-> NoCall]
    /\ ret = [p \in Procs |-> NoRet]
    /\ ncalls = 0
    /\ made = 0

----------------------------------------------------------------------------
(* Tool responses handed to convertToolResponse *)

UrlSegments ==
    { DataPrefix, Base64Marker, <<";">>, <<"p">>, <<"\n">> }

RECURSIVE Urls(_)
Urls(n) ==
    IF n = 0 THEN {<<>>}
    ELSE LET shorter == Urls(n - 1)
         IN shorter \cup {u \o s : u \in shorter, s \in UrlSegments}

MapOf(url, contentType, result) ==
    LET all == [k \in {"url", "contentType", "result"} |->
                   IF k = "url" THEN url
                   ELSE IF k = "contentType" THEN contentType ELSE result]
    IN [k \in {k \in DOMAIN all : all[k].t # "absent"} |-> all[k]]

UrlValues == {Absent, NumberVal(<<"7">>)} \cup {StringVal(s) : s \in Urls(MaxSegs)}
ContentTypeValues == {Absent, StringVal(<<"j">>), NumberVal(<<"1">>)}
ResultValues == {Absent, NumberVal(<<"4", "2">>), ChanVal}

InitTool ==
    /\ PluginInit
    /\ \E u \in UrlValues, c \in ContentTypeValues, r \in ResultValues :
          input = [Name |-> "lookup", Output |-> MapOf(u, c, r)]
    /\ output = <<>>
    /\ phase = "ready"

ApplyConvertToolResponse ==
    /\ phase = "ready"
    /\ output' = convertToolResponse(input)
    /\ phase' = "done"
    /\ UNCHANGED <<input, pluginVars>>

SpecTool == InitTool /\ [][ApplyConvertToolResponse]_vars

\* url = "data:" media ";base64," payload, with the semicolon before "base64,"
\* at position i: media is non-empty and holds no ';', payload is non-empty
\* and holds no newline
SplitsAt(url, i) ==
    /\ HasAt(url, 1, DataPrefix)
    /\ i > Len(DataPrefix) + 1
    /\ HasAt(url, i, Base64Marker)
    /\ \A j \in (Len(DataPrefix) + 1)..(i - 1) : url[j] # ";"
    /\ i + Len(Base64Marker) <= Len(url)
    /\ \A j \in (i + Len(Base64Marker))..Len(url) : url[j] # "\n"

MatchesDataURL(url) == \E i \in 1..Len(url) : SplitsAt(url, i)
MediaTypeOf(url) ==
    LET i == CHOOSE i \in 1..Len(url) : SplitsAt(url, i)
    IN SubSeq(url, Len(DataPrefix) + 1, i - 1)
PayloadOf(url) ==
    LET i == CHOOSE i \in 1..Len(url) : SplitsAt(url, i)
    IN SubSeq(url, i + Len(Base64Marker), Len(url))

IsImageCase(out) == IsString(out, "url") /\ MatchesDataURL(out["url"].v)

ExpectedImage(out) ==
    <<ImageOpen>> \o PayloadOf(out["url"].v) \o <<ImageMid>>
        \o (IF IsString(out, "contentType") THEN out["contentType"].v
            ELSE MediaTypeOf(out["url"].v))
        \o <<ImageClose>>

WrapsJSONOf(o, out) ==
    /\ Len(o) >= 2
    /\ o[1] = TextOpen
    /\ o[Len(o)] = TextClose
    /\ jsonMarshal(out).err = NoErr
    /\ SubSeq(o, 2, Len(o) - 1) = jsonMarshal(out).bytes

\* C8 (as stated): a string "url" matching the data-URL pattern gives the image
\* block with the payload and the media type (output["contentType"] when it is
\* a string, else the one of the URL); every other map gives the text block
\* wrapping the JSON serialization of the map.
ToolResponseShapeAsStated ==
    phase = "done" =>
        IF IsImageCase(input.Output)
        THEN output = ExpectedImage(input.Output)
        ELSE WrapsJSONOf(output, input.Output)

\* C8 (amended): as above, but a map that matches no data URL and that
\* encoding/json cannot serialize gives the empty string.
ToolResponseShape ==
    phase = "done" =>
        IF IsImageCase(input.Output)
        THEN output = ExpectedImage(input.Output)
        ELSE IF \A k \in DOMAIN input.Output : input.Output[k].t # "chan"
             THEN WrapsJSONOf(output, input.Output)
             ELSE output = <<>>

\* an image block whose media type is the "contentType" override, not the URL's
ToolResponseImageOverridden ==
    /\ phase = "done"
    /\ IsImageCase(input.Output)
    /\ IsString(input.Output, "contentType")
    /\ MediaTypeOf(input.Output["url"].v) # input.Output["contentType"].v
    /\ output = ExpectedImage(input.Output)

----------------------------------------------------------------------------
(* Provider responses handed to translateResponse *)

ContentBlocks ==
    { [Type |-> "text", Text |-> "a"], [Type |-> "text", Text |-> "b"],
      [Type |-> "tool_use", Text |-> ""] }

StopReasons == {"end_turn", "max_tokens", "stop_sequence", "tool_use", "", "pause_turn"}

RECURSIVE SeqsUpTo(_, _)
SeqsUpTo(S, n) ==
    IF n = 0 THEN {<<>>}
    ELSE LET shorter == SeqsUpTo(S, n - 1)
         IN shorter \cup {Append(s, x) : s \in shorter, x \in S}

ProviderResponses ==
    { [Content |-> c, StopReason |-> sr,
       Usage |-> [InputTokens |-> i, OutputTokens |-> o]] :
        c \in SeqsUpTo(ContentBlocks, MaxBlocks), sr \in StopReasons,
        i \in 0..MaxTokens, o \in 0..MaxTokens }

InitResponse ==
    /\ PluginInit
    /\ input \in ProviderResponses
    /\ output = <<>>
    /\ phase = "ready"

ApplyTranslateResponse ==
    /\ phase = "ready"
    /\ output' = translateResponse(input)
    /\ phase' = "done"
    /\ UNCHANGED <<input, pluginVars>>

SpecResponse == InitResponse /\ [][ApplyTranslateResponse]_vars

\* C6: k content blocks give k candidates in block order, each with role
\* model, all with the finish reason of the response's stop reason: Stop for
\* end-turn, Length for max-tokens, Other for stop-sequence and tool-use,
\* Unknown for anything else.
StopReasonMapping ==
    phase = "done" =>
        LET expected ==
                IF input.StopReason = "end_turn" THEN "stop"
                ELSE IF input.StopReason = "max_tokens" THEN "length"
                ELSE IF input.StopReason \in {"stop_sequence", "tool_use"} THEN "other"
                ELSE "unknown"
        IN /\ Len(output.Candidates) = Len(input.Content)
           /\ \A i \in 1..Len(input.Content) :
                /\ output.Candidates[i].Message.Role = "model"
                /\ Len(output.Candidates[i].Message.Content) = 1
                /\ output.Candidates[i].Message.Content[1].Text = input.Content[i].Text
                /\ output.Candidates[i].FinishReason = expected

\* two blocks translated under a stop-sequence stop
StopReasonMappingWitness ==
    /\ phase = "done"
    /\ input.StopReason = "stop_sequence"
    /\ Len(input.Content) = 2
    /\ input.Content[1] # input.Content[2]
    /\ Len(output.Candidates) = 2
    /\ output.Candidates[2].FinishReason = "other"

\* C7: the usage carries the provider's two counters and their exact sum
UsageTotalIsSum ==
    phase = "done" =>
        /\ output.Usage.InputTokens = input.Usage.InputTokens
        /\ output.Usage.OutputTokens = input.Usage.OutputTokens
        /\ output.Usage.TotalTokens =
               input.Usage.InputTokens + input.Usage.OutputTokens

\* a response with no content block and two different non-zero counters
UsageTotalWitness ==
    /\ phase = "done"
    /\ input.Content = <<>>
    /\ input.Usage.InputTokens = 1
    /\ input.Usage.OutputTokens = 2
    /\ output.Usage.TotalTokens = 3

----------------------------------------------------------------------------
(* Requests handed to convertRequest *)

NoToolRequest == [Name |-> "", Input |-> "nil"]
NoToolResponse == [Name |-> "", Output |-> <<>>]

TextPart ==
    [Kind |-> "text", Text |-> "hello", ContentType |-> "",
     ToolRequest |-> NoToolRequest, ToolResponse |-> NoToolResponse]
MediaPart ==
    [Kind |-> "media", Text |-> "AAA=", ContentType |-> "image/png",
     ToolRequest |-> NoToolRequest, ToolResponse |-> NoToolResponse]
ToolRequestPart ==
    [Kind |-> "toolRequest", Text |-> "", ContentType |-> "",
     ToolRequest |-> [Name |-> "lookup", Input |-> "q"],
     ToolResponse |-> NoToolResponse]
ToolResponsePart ==
    [Kind |-> "toolResponse", Text |-> "", ContentType |-> "",
     ToolRequest |-> NoToolRequest,
     ToolResponse |-> [Name |-> "lookup",
                       Output |-> MapOf(Absent, Absent, NumberVal(<<"4", "2">>))]]
DataPart ==
    [Kind |-> "data", Text |-> "{}", ContentType |-> "",
     ToolRequest |-> NoToolRequest, ToolResponse |-> NoToolResponse]

Contents ==
    << <<>>, <<TextPart>>, <<MediaPart, ToolRequestPart>>, <<ToolResponsePart>>,
       <<DataPart>>, <<TextPart, DataPart, MediaPart>>, <<ToolResponsePart, TextPart>> >>

Roles == {"user", "system", "model"}

\* a message is chosen by its role and the index of its content in Contents
MessageKeys == {"user", "system"} \X (1..Len(Contents))
MessagesOf(keys) ==
    [i \in 1..Len(keys) |-> [Role |-> keys[i][1], Content |-> Contents[keys[i][2]]]]
TextMessagesOf(roles) ==
    [i \in 1..Len(roles) |-> [Role |-> roles[i], Content |-> <<TextPart>>]]

ToolDefinitions ==
    {[Name |-> "lookup", Description |-> "looks up", InputSchema |-> "schema"]}

NoOutput == [nil |-> TRUE, Format |-> ""]
Outputs == {NoOutput} \cup {[nil |-> FALSE, Format |-> f] : f \in {"text", "json", "media"}}

CommonConfigs ==
    [MaxOutputTokens : {0, 1024}, TopK : {0, 40}, TopP : {0, 9},
     Temperature : {5, 9}, StopSequences : {<<>>, <<"END">>}]

ZeroCommonConfig ==
    [MaxOutputTokens |-> 0, TopK |-> 0, TopP |-> 0, Temperature |-> 0,
     StopSequences |-> <<>>]

\* input.Config is an `any`: its dynamic type, whether the pointer is nil, and
\* the fields of the struct it points to
NoConfig ==
    [dyn |-> "nil", isNil |-> TRUE, common |-> ZeroCommonConfig,
     ToolChoiceParam |-> "", Metadata |-> ""]
Configs ==
    {NoConfig}
    \cup {[NoConfig EXCEPT !.dyn = d] : d \in {"common", "anthropic"}}
    \cup {[NoConfig EXCEPT !.dyn = "other", !.isNil = FALSE]}
    \cup {[dyn |-> "common", isNil |-> FALSE, common |-> c,
           ToolChoiceParam |-> "", Metadata |-> ""] : c \in CommonConfigs}
    \cup {[dyn |-> "anthropic", isNil |-> FALSE, common |-> c,
           ToolChoiceParam |-> t, Metadata |-> "user-1"] :
             c \in CommonConfigs, t \in {"auto", "tool:lookup"}}

SomeCommonConfig ==
    [dyn |-> "common", isNil |-> FALSE,
     common |-> [MaxOutputTokens |-> 1024, TopK |-> 40, TopP |-> 9,
                 Temperature |-> 5, StopSequences |-> <<"END">>],
     ToolChoiceParam |-> "", Metadata |-> ""]

ModelName == "claude-3-haiku-20240307"

\* every message list with each of a few configs, or every config with a few
\* message lists
InitRequest ==
    /\ PluginInit
    /\ \/ \E ks \in SeqsUpTo(MessageKeys, MaxMsgs), t \in SeqsUpTo(ToolDefinitions, 1),
             o \in Outputs, c \in {NoConfig, SomeCommonConfig} :
             input = [Messages |-> MessagesOf(ks), Tools |-> t, Output |-> o,
                      Config |-> c]
       \/ \E rs \in SeqsUpTo(Roles, MaxMsgs), t \in SeqsUpTo(ToolDefinitions, 1),
             o \in {NoOutput, [nil |-> FALSE, Format |-> "json"]}, c \in Configs :
             input = [Messages |-> TextMessagesOf(rs), Tools |-> t, Output |-> o,
                      Config |-> c]
    /\ output = <<>>
    /\ phase = "ready"

\* req is what convertRequest returns, cm what its call of convertMessages does
ApplyConvertRequest ==
    /\ phase = "ready"
    /\ output' = [req |-> convertRequest(ModelName, input),
                  cm |-> convertMessages(input.Messages)]
    /\ phase' = "done"
    /\ UNCHANGED <<input, pluginVars>>

SpecRequest == InitRequest /\ [][ApplyConvertRequest]_vars

AllParts(messages) == Concat([i \in 1..Len(messages) |-> messages[i].Content])
AllSupported(messages) ==
    \A i \in 1..Len(AllParts(messages)) : AllParts(messages)[i].Kind \in SupportedKinds
FirstUnsupported(messages) ==
    LET ps == AllParts(messages)
    IN CHOOSE i \in 1..Len(ps) :
          /\ ps[i].Kind \notin SupportedKinds
          /\ \A j \in 1..(i - 1) : ps[j].Kind \in SupportedKinds

\* the provider role of a result entry, system blocks counting as "system"
RECURSIVE RolesOf(_)
RolesOf(messages) ==
    IF messages = <<>> THEN <<>>
    ELSE <<convertRole(Head(messages).Role).role>> \o RolesOf(Tail(messages))

\* C1: for n messages of supported parts, the system blocks and the provider
\* messages returned by convertMessages are together n entries, one per input
\* message, the provider messages carrying the roles derived from the input
\* roles in input order; the result is not empty when n > 0.
MessagesAccumulated ==
    (phase = "done" /\ AllSupported(input.Messages)) =>
        /\ output.cm.err = NoErr
        /\ Len(output.cm.system.elems) + Len(output.cm.user.elems) = Len(input.Messages)
        /\ \A i \in 1..Len(output.cm.user.elems) :
              \E j \in 1..Len(input.Messages) :
                  output.cm.user.elems[i].Role = RolesOf(input.Messages)[j]

\* C3: a request whose output format is set and is not text is rejected with
\* the unsupported-output-format error and the zero request, before any
\* message or tool is converted.
NonTextOutputRejected ==
    (phase = "done" /\ ~input.Output.nil /\ input.Output.Format # "text") =>
        /\ output.req.err.kind = "UnsupportedOutputFormat"
        /\ output.req.params = ZeroParams
        /\ output.req.calls = <<>>

\* a rejected request that has messages (one of them unconvertible), a tool
\* and a config
NonTextOutputRejectedWitness ==
    /\ phase = "done"
    /\ ~input.Output.nil
    /\ input.Output.Format = "media"
    /\ ~AllSupported(input.Messages)
    /\ input.Tools # <<>>
    /\ input.Config # NoConfig
    /\ output.req.err.kind = "UnsupportedOutputFormat"

GenerationFieldsFrom(params, c) ==
    /\ params.MaxTokens = F(c.MaxOutputTokens)
    /\ params.TopK = F(c.TopK)
    /\ params.TopP = F(c.TopP)
    /\ params.Temperature = F(c.Temperature)
    /\ params.StopSequences = F(c.StopSequences)

\* C5: a provider-specific config (which carries the common config it embeds)
\* sets the five shared fields from its own values and sets tool choice and
\* metadata; a common config alone sets the five shared fields and leaves tool
\* choice and metadata unset; without a config all seven stay unset.
ConfigPrecedence ==
    (phase = "done" /\ output.req.err = NoErr) =>
        LET cfg == input.Config
            params == output.req.params
        IN /\ (cfg.dyn = "anthropic" /\ ~cfg.isNil) =>
                 /\ GenerationFieldsFrom(params, cfg.common)
                 /\ params.ToolChoice = F(cfg.ToolChoiceParam)
                 /\ params.Metadata = F(cfg.Metadata)
           /\ (cfg.dyn = "common" /\ ~cfg.isNil) =>
                 /\ GenerationFieldsFrom(params, cfg.common)
                 /\ ~params.ToolChoice.present
                 /\ ~params.Metadata.present
           /\ (cfg.dyn = "nil" \/ cfg.isNil) =>
                 \A f \in {"MaxTokens", "TopK", "TopP", "Temperature",
                           "StopSequences", "ToolChoice", "Metadata"} :
                     ~params[f].present

\* a request assembled from a provider-specific config
ConfigPrecedenceWitness ==
    /\ phase = "done"
    /\ output.req.err = NoErr
    /\ input.Config.dyn = "anthropic"
    /\ ~input.Config.isNil
    /\ input.Config.common.Temperature = 9
    /\ input.Config.ToolChoiceParam = "tool:lookup"
    /\ output.req.params.Temperature = F(9)
    /\ output.req.params.ToolChoice = F("tool:lookup")

\* C9: the first part of an unsupported kind makes convertMessages return the
\* unsupported-part-kind error and nil lists, having converted only the parts
\* before it; convertRequest then returns that error with the zero request
\* and without converting the tools.  With supported parts only,
\* convertMessages returns no error.
UnsupportedPartAborts ==
    phase = "done" =>
        IF AllSupported(input.Messages)
        THEN output.cm.err = NoErr
        ELSE LET k == FirstUnsupported(input.Messages)
             IN /\ output.cm.err =
                       Errorf("UnsupportedPartKind", AllParts(input.Messages)[k].Kind)
                /\ output.cm.system = NilSlice
                /\ output.cm.user = NilSlice
                /\ Len(output.cm.built) = k - 1
                /\ (input.Output.nil \/ input.Output.Format = "text") =>
                      /\ output.req.err = output.cm.err
                      /\ output.req.params = ZeroParams
                      /\ output.req.calls = <<"convertMessages">>

\* an assembly aborted by an unsupported part that has supported parts before
\* and after it, in a request that has tools
UnsupportedPartAbortsWitness ==
    /\ phase = "done"
    /\ input.Output.nil
    /\ input.Tools # <<>>
    /\ ~AllSupported(input.Messages)
    /\ FirstUnsupported(input.Messages) > 1
    /\ FirstUnsupported(input.Messages) < Len(AllParts(input.Messages))
    /\ output.req.err.kind = "UnsupportedPartKind"
    /\ Len(output.cm.built) = FirstUnsupported(input.Messages) - 1

----------------------------------------------------------------------------
(* The plugin: Init, DefineModel and the invocation of a registered model  *)
(* by concurrent callers.  A panic unwinds through the deferred Unlock and *)
(* is given to the caller as the outcome "panic"; a run in which the panic *)
(* ends the program is a prefix of a run in which the caller recovers.     *)

Configs0 ==
    { [nil |-> TRUE, APIKey |-> ""], [nil |-> FALSE, APIKey |-> ""],
      [nil |-> FALSE, APIKey |-> "key-cfg"] }
EnvKeys == {"", "key-env"}

DefineNames == {"claude-3-haiku-20240307", "my-model"}
TextOnly == [Multiturn |-> TRUE, Tools |-> FALSE, SystemRole |-> FALSE, Media |-> FALSE]
CapsArgs == {[nil |-> TRUE, caps |-> Multimodal], [nil |-> FALSE, caps |-> TextOnly]}

GenRequests ==
    { [Messages |-> <<[Role |-> "user", Content |-> <<TextPart>>]>>, Tools |-> <<>>,
       Output |-> NoOutput, Config |-> NoConfig],
      [Messages |-> <<[Role |-> "user", Content |-> <<DataPart>>]>>, Tools |-> <<>>,
       Output |-> NoOutput, Config |-> NoConfig] }

TransportError == Errorf("Transport", "503")
TransportResults ==
    { [res |-> [Content |-> <<[Type |-> "text", Text |-> "a"]>>,
                StopReason |-> "end_turn",
                Usage |-> [InputTokens |-> 1, OutputTokens |-> 2]],
       err |-> NoErr],
      [res |-> [Content |-> <<>>, StopReason |-> "",
                Usage |-> [InputTokens |-> 0, OutputTokens |-> 0]],
       err |-> TransportError] }

InLock ==
    { "init_check", "init_key", "init_client", "init_flag", "init_define",
      "dm_check", "dm_resolve", "dm_define", "unlock" }

Goto(p, where) == pc' = [pc EXCEPT ![p] = where]

NoResponse == [nil |-> TRUE, Candidates |-> <<>>]
NoTransport == [called |-> FALSE]

\* what the call of p leaves to its caller: the outcome ("ok", "error" or
\* "panic"), the error and the response, with what the call did on the way
Return(p, outcome, err, resp) ==
    [op |-> call[p].op,
     args |-> IF call[p].op = "Init" THEN [apiKey |-> call[p].apiKey] ELSE call[p].args,
     outcome |-> outcome, err |-> err, resp |-> resp,
     inittedAtCall |-> call[p].inittedAtCall,
     defined |-> call[p].defined,
     sends |-> call[p].sends, transport |-> call[p].transport]

\* a call starts: inittedAtCall is state.initted at that moment, client the
\* value of state.client the registered function hands to generate, defined the
\* names the call has registered, sends the calls of client.Messages.New it
\* has made and transport what the last of them returned
Begin(p, op, args) ==
    /\ pc[p] = "idle"
    /\ ncalls < MaxCalls
    /\ ncalls' = ncalls + 1
    /\ call' = [call EXCEPT ![p] =
                   [op |-> op, args |-> args,
                    inittedAtCall |-> initted, client |-> client,
                    outcome |-> "", err |-> NoErr, apiKey |-> "",
                    todo |-> {}, mc |-> Multimodal, defined |-> {},
                    req |-> ZeroParams, sends |-> 0, transport |-> NoTransport]]

\* state.mu.Lock()
Lock(p, next) ==
    /\ mu = "free"
    /\ mu' = p
    /\ Goto(p, next)

\* the deferred state.mu.Unlock(), then the return to the caller
Unlock(p) ==
    /\ pc[p] = "unlock"
    /\ mu' = "free"
    /\ ret' = [ret EXCEPT ![p] = Return(p, call[p].outcome, call[p].err, NoResponse)]
    /\ call' = [call EXCEPT ![p] = NoCall]
    /\ Goto(p, "idle")
    /\ UNCHANGED <<initted, client, registry, ncalls, made, funcVars>>

\* ai.DefineModel(provider, name, meta, fn) behind defineModel
defineModel(reg, name, caps) ==
    [n \in DOMAIN reg \cup {name} |->
        IF n = name
        THEN [Label |-> <<labelPrefix, " - ", name>>, Supports |-> caps]
        ELSE reg[n]]

CallInit(p) ==
    \E cfg \in Configs0, env \in EnvKeys :
        /\ Begin(p, "Init", [cfg |-> cfg, env |-> env])
        /\ Goto(p, "init_lock")
        /\ UNCHANGED <<initted, client, mu, registry, ret, made, funcVars>>

InitLock(p) ==
    /\ pc[p] = "init_lock"
    /\ Lock(p, "init_check")
    /\ UNCHANGED <<initted, client, registry, call, ret, ncalls, made, funcVars>>

\* InitCheck without the test of state.initted
InitCheckNoGuard(p) ==
    /\ pc[p] = "init_check"
    /\ Goto(p, "init_key")
    /\ UNCHANGED <<initted, client, mu, registry, call, ret, ncalls, made, funcVars>>

\* if state.initted { panic(...) }
InitCheck(p) ==
    /\ pc[p] = "init_check"
    /\ IF initted
       THEN /\ call' = [call EXCEPT ![p].outcome = "panic"]
            /\ Goto(p, "unlock")
       ELSE /\ Goto(p, "init_key")
            /\ UNCHANGED call
    /\ UNCHANGED <<initted, client, mu, registry, ret, ncalls, made, funcVars>>

\* InitKey with state.initted set before the key is looked up
InitKeyFlagFirst(p) ==
    /\ pc[p] = "init_key"
    /\ initted' = TRUE
    /\ LET cfgKey == IF call[p].args.cfg.nil THEN "" ELSE call[p].args.cfg.APIKey
           apiKey == IF cfgKey # "" THEN cfgKey ELSE call[p].args.env
       IN IF apiKey = ""
          THEN /\ call' = [call EXCEPT ![p].outcome = "error",
                                       ![p].err = Errorf("MissingCredential", "ANTHROPIC_API_KEY")]
               /\ Goto(p, "unlock")
          ELSE /\ call' = [call EXCEPT ![p].apiKey = apiKey]
               /\ Goto(p, "init_client")
    /\ UNCHANGED <<client, mu, registry, ret, ncalls, made, funcVars>>

\* the API key of the config, else of the environment, else the error
InitKey(p) ==
    /\ pc[p] = "init_key"
    /\ LET cfgKey == IF call[p].args.cfg.nil THEN "" ELSE call[p].args.cfg.APIKey
           apiKey == IF cfgKey # "" THEN cfgKey ELSE call[p].args.env
       IN IF apiKey = ""
          THEN /\ call' = [call EXCEPT ![p].outcome = "error",
                                       ![p].err = Errorf("MissingCredential", "ANTHROPIC_API_KEY")]
               /\ Goto(p, "unlock")
          ELSE /\ call' = [call EXCEPT ![p].apiKey = apiKey]
               /\ Goto(p, "init_client")
    /\ UNCHANGED <<initted, client, mu, registry, ret, ncalls, made, funcVars>>

\* state.client = anthropic.NewClient(option.WithAPIKey(apiKey))
InitClient(p) ==
    /\ pc[p] = "init_client"
    /\ client' = [nil |-> FALSE, id |-> made + 1, apiKey |-> call[p].apiKey]
    /\ made' = made + 1
    /\ Goto(p, "init_flag")
    /\ UNCHANGED <<initted, mu, registry, call, ret, ncalls, funcVars>>

\* state.initted = true
InitFlag(p) ==
    /\ pc[p] = "init_flag"
    /\ initted' = TRUE
    /\ call' = [call EXCEPT ![p].todo = DOMAIN knownCaps]
    /\ Goto(p, "init_define")
    /\ UNCHANGED <<client, mu, registry, ret, ncalls, made, funcVars>>

\* one iteration of the range over knownCaps, in the order the map gives
InitDefine(p) ==
    /\ pc[p] = "init_define"
    /\ \E m \in call[p].todo :
          /\ registry' = defineModel(registry, m, knownCaps[m])
          /\ call' = [call EXCEPT ![p].todo = call[p].todo \ {m},
                                   ![p].defined = call[p].defined \cup {m}]
    /\ UNCHANGED <<initted, client, mu, pc, ret, ncalls, made, funcVars>>

\* return nil
InitDone(p) ==
    /\ pc[p] = "init_define"
    /\ call[p].todo = {}
    /\ call' = [call EXCEPT ![p].outcome = "ok"]
    /\ Goto(p, "unlock")
    /\ UNCHANGED <<initted, client, mu, registry, ret, ncalls, made, funcVars>>

CallDefineModel(p) ==
    \E name \in DefineNames, caps \in CapsArgs :
        /\ Begin(p, "DefineModel", [name |-> name, caps |-> caps])
        /\ Goto(p, "dm_lock")
        /\ UNCHANGED <<initted, client, mu, registry, ret, made, funcVars>>

DMLock(p) ==
    /\ pc[p] = "dm_lock"
    /\ Lock(p, "dm_check")
    /\ UNCHANGED <<initted, client, registry, call, ret, ncalls, made, funcVars>>

\* if !state.initted { panic(...) }
DMCheck(p) ==
    /\ pc[p] = "dm_check"
    /\ IF ~initted
       THEN /\ call' = [call EXCEPT ![p].outcome = "panic"]
            /\ Goto(p, "unlock")
       ELSE /\ Goto(p, "dm_resolve")
            /\ UNCHANGED call
    /\ UNCHANGED <<initted, client, mu, registry, ret, ncalls, made, funcVars>>

\* the capabilities given, else the known ones of the name, else the error
DMResolve(p) ==
    /\ pc[p] = "dm_resolve"
    /\ LET name == call[p].args.name
           caps == call[p].args.caps
       IN IF caps.nil /\ name \notin DOMAIN knownCaps
          THEN /\ call' = [call EXCEPT ![p].outcome = "error",
                                       ![p].err = Errorf("UnknownModelCapabilities", name)]
               /\ Goto(p, "unlock")
          ELSE /\ call' = [call EXCEPT ![p].mc =
                              IF caps.nil THEN knownCaps[name] ELSE caps.caps]
               /\ Goto(p, "dm_define")
    /\ UNCHANGED <<initted, client, mu, registry, ret, ncalls, made, funcVars>>

\* return defineModel(name, mc), nil
DMDefine(p) ==
    /\ pc[p] = "dm_define"
    /\ registry' = defineModel(registry, call[p].args.name, call[p].mc)
    /\ call' = [call EXCEPT ![p].outcome = "ok",
                             ![p].defined = {call[p].args.name}]
    /\ Goto(p, "unlock")
    /\ UNCHANGED <<initted, client, mu, ret, ncalls, made, funcVars>>

----------------------------------------------------------------------------
(* generate, called through the function defineModel registers *)

\* the registered function runs generate(ctx, state.client, name, input, cb):
\* the client is the one state.client holds when the model is invoked
CallModel(p) ==
    \E name \in DOMAIN registry \cap DefineNames, req \in GenRequests :
        /\ Begin(p, "generate", [name |-> name, input |-> req])
        /\ Goto(p, "gen_convert")
        /\ UNCHANGED <<initted, client, mu, registry, ret, made, funcVars>>

ReturnFromGenerate(p, err, resp) ==
    /\ ret' = [ret EXCEPT ![p] =
                  Return(p, IF err = NoErr THEN "ok" ELSE "error", err, resp)]
    /\ Goto(p, "idle")

\* GenConvert going on to the transport whatever convertRequest returned
GenConvertIgnoringError(p) ==
    /\ pc[p] = "gen_convert"
    /\ LET r == convertRequest(call[p].args.name, call[p].args.input)
       IN /\ call' = [call EXCEPT ![p].req = r.params]
          /\ Goto(p, "gen_send")
          /\ UNCHANGED ret
    /\ UNCHANGED <<initted, client, mu, registry, ncalls, made, funcVars>>

\* req, err := convertRequest(model, input); if err != nil { return nil, err }
GenConvert(p) ==
    /\ pc[p] = "gen_convert"
    /\ LET r == convertRequest(call[p].args.name, call[p].args.input)
       IN IF r.err # NoErr
          THEN /\ ReturnFromGenerate(p, r.err, NoResponse)
               /\ call' = [call EXCEPT ![p] = NoCall]
          ELSE /\ call' = [call EXCEPT ![p].req = r.params]
               /\ Goto(p, "gen_send")
               /\ UNCHANGED ret
    /\ UNCHANGED <<initted, client, mu, registry, ncalls, made, funcVars>>

\* res, err := client.Messages.New(ctx, req); if err != nil { return nil, err }
GenSend(p) ==
    /\ pc[p] = "gen_send"
    /\ \E t \in TransportResults :
          LET sent == [call EXCEPT ![p].sends = call[p].sends + 1,
                                   ![p].transport =
                                       [called |-> TRUE, req |-> call[p].req,
                                        res |-> t.res, err |-> t.err]]
          IN IF t.err # NoErr
             THEN /\ ret' = [ret EXCEPT ![p] =
                                [Return(p, "error", t.err, NoResponse) EXCEPT
                                    !.sends = sent[p].sends,
                                    !.transport = sent[p].transport]]
                  /\ Goto(p, "idle")
                  /\ call' = [call EXCEPT ![p] = NoCall]
             ELSE /\ call' = sent
                  /\ Goto(p, "gen_translate")
                  /\ UNCHANGED ret
    /\ UNCHANGED <<initted, client, mu, registry, ncalls, made, funcVars>>

\* r := translateResponse(res); r.Request = input; return r, nil
GenTranslate(p) ==
    /\ pc[p] = "gen_translate"
    /\ LET r == translateResponse(call[p].transport.res)
       IN ReturnFromGenerate(p, NoErr,
              [nil |-> FALSE, Candidates |-> r.Candidates, Usage |-> r.Usage,
               Request |-> [nil |-> FALSE, to |-> call[p].args.input]])
    /\ call' = [call EXCEPT ![p] = NoCall]
    /\ UNCHANGED <<initted, client, mu, registry, ncalls, made, funcVars>>

----------------------------------------------------------------------------

Init ==
    /\ PluginInit
    /\ input = <<>>
    /\ output = <<>>
    /\ phase = "ready"

Next ==
    \E p \in Procs :
        \/ CallInit(p) \/ InitLock(p) \/ InitCheck(p) \/ InitKey(p)
        \/ InitClient(p) \/ InitFlag(p) \/ InitDefine(p) \/ InitDone(p)
        \/ CallDefineModel(p) \/ DMLock(p) \/ DMCheck(p) \/ DMResolve(p)
        \/ DMDefine(p) \/ Unlock(p)
        \/ CallModel(p) \/ GenConvert(p) \/ GenSend(p) \/ GenTranslate(p)

Spec == Init /\ [][Next]_vars

----------------------------------------------------------------------------
(* Claims about the plugin *)

GenStates == {"gen_convert", "gen_send", "gen_translate"}

\* C2: generate assembles, then calls the transport, then translates.  A failed
\* assembly returns its error and no response without a transport call; a
\* failed transport call returns its error unchanged and no response; a
\* response is returned only when both succeeded, and it refers back to the
\* request given.  The transport is called at most once.
GenerateOrder ==
    \A p \in Procs :
        /\ pc[p] = "gen_send" =>
              /\ call[p].sends = 0
              /\ convertRequest(call[p].args.name, call[p].args.input) =
                     [params |-> call[p].req, err |-> NoErr,
                      calls |-> <<"convertMessages", "convertTools">>]
        /\ pc[p] = "gen_translate" =>
              /\ call[p].sends = 1
              /\ call[p].transport.err = NoErr
              /\ call[p].transport.req = call[p].req
        /\ ret[p].op = "generate" =>
              LET r == ret[p]
                  conv == convertRequest(r.args.name, r.args.input)
              IN /\ r.sends <= 1
                 /\ conv.err # NoErr =>
                       r.sends = 0 /\ r.err = conv.err /\ r.resp.nil
                 /\ conv.err = NoErr =>
                       /\ r.sends = 1
                       /\ r.transport.req = conv.params
                       /\ r.transport.err # NoErr =>
                             r.err = r.transport.err /\ r.resp.nil
                       /\ r.transport.err = NoErr =>
                             /\ r.err = NoErr
                             /\ ~r.resp.nil
                             /\ r.resp.Request = [nil |-> FALSE, to |-> r.args.input]
                             /\ r.resp.Candidates =
                                    translateResponse(r.transport.res).Candidates

\* one invocation has returned a response that refers to its request, another
\* has returned an assembly error without a transport call
GenerateOrderWitness ==
    \E p, q \in Procs :
        /\ ret[p].op = "generate"
        /\ ret[p].outcome = "ok"
        /\ ret[p].sends = 1
        /\ ret[p].resp.Request.to = ret[p].args.input
        /\ ret[q].op = "generate"
        /\ ret[q].err.kind = "UnsupportedPartKind"
        /\ ret[q].sends = 0

\* C4: under the lock, at most one Init succeeds (one client is ever made and
\* it is never replaced), an Init that starts after the flag is set panics and
\* registers nothing, and at most one Init or DefineModel body holds the lock.
InitOneShot ==
    /\ made <= 1
    /\ ~client.nil => client.id = 1
    /\ Cardinality({p \in Procs : ret[p].op = "Init" /\ ret[p].outcome = "ok"}) <= 1
    /\ Cardinality({p \in Procs : pc[p] \in InLock}) <= 1
    /\ \A p \in Procs :
          /\ pc[p] \in InLock <=> mu = p
          /\ (ret[p].op = "Init" /\ ret[p].inittedAtCall) =>
                ret[p].outcome = "panic" /\ ret[p].defined = {}
          /\ (call[p].op = "Init" /\ call[p].inittedAtCall) =>
                pc[p] \in {"init_lock", "init_check", "unlock"}

\* an Init has succeeded and an Init started after it has panicked
InitOneShotWitness ==
    \E p, q \in Procs :
        /\ ret[p].op = "Init"
        /\ ret[p].outcome = "ok"
        /\ ret[q].op = "Init"
        /\ ret[q].inittedAtCall
        /\ ret[q].outcome = "panic"
        /\ ~client.nil

\* C10: outside the lock the flag is set exactly when the client is; models
\* are registered only once the flag is set.  An Init without an API key
\* returns its error with the flag false, no client and no model; DefineModel
\* before Init panics and DefineModel with nil capabilities for an unknown
\* name returns an error, both without registering; an invoked model is
\* handed a client that is not nil.
PluginStateInvariant ==
    /\ mu = "free" => (initted <=> ~client.nil)
    /\ initted => ~client.nil
    /\ DOMAIN registry # {} => initted
    /\ \A p \in Procs :
          /\ (pc[p] = "unlock" /\ call[p].op = "Init" /\ call[p].outcome = "error") =>
                /\ ~initted /\ client.nil /\ DOMAIN registry = {}
                /\ call[p].err.kind = "MissingCredential"
          /\ (pc[p] = "unlock" /\ call[p].op = "DefineModel"
                  /\ call[p].outcome = "panic") =>
                ~initted /\ DOMAIN registry = {} /\ call[p].defined = {}
          /\ (pc[p] = "unlock" /\ call[p].op = "DefineModel"
                  /\ call[p].outcome = "error") =>
                /\ call[p].args.caps.nil
                /\ call[p].args.name \notin KnownModels
                /\ call[p].defined = {}
          /\ (ret[p].op \in {"Init", "DefineModel"} /\ ret[p].outcome # "ok") =>
                ret[p].defined = {}
          /\ (ret[p].op = "DefineModel" /\ ret[p].args.caps.nil
                  /\ ret[p].args.name \notin KnownModels) =>
                ret[p].outcome \in {"error", "panic"}
          /\ (ret[p].op = "DefineModel" /\ ~ret[p].inittedAtCall /\ ~initted) =>
                ret[p].outcome = "panic"
          /\ pc[p] \in GenStates => ~call[p].client.nil

\* an Init has failed for the missing key and a later Init has succeeded
PluginStateWitness ==
    \E p, q \in Procs :
        /\ ret[p].op = "Init"
        /\ ret[p].outcome = "error"
        /\ ret[p].err.kind = "MissingCredential"
        /\ ret[q].op = "Init"
        /\ ret[q].outcome = "ok"
        /\ initted
        /\ DOMAIN registry = KnownModels

====
